---- MODULE Spec2Model ----
(***************************************************************************)
(* Model of scripts/get_genomes.py: the rank index of the reference        *)
(* genomes (get_genomes_per_rank), the lineage normalisation               *)
(* (transform_lineage), the assignment of genomes to OTUs                  *)
(* (map_otus_to_genomes), the fill-up pass (fill_up) and the output        *)
(* writer (write_config).                                                  *)
(*                                                                         *)
(* Conventions.  A lineage token "g__Escherichia coli" is the record       *)
(* [prefix |-> "g", name |-> <<"Escherichia", "coli">>]: the name is the   *)
(* part right of the last "__", kept as its whitespace-delimited words, so *)
(* that the empty name is <<>> and name.split()[0] is <<name[1]>>.         *)
(* A source location is the pair <<genome id, n>>: the n-th location       *)
(* listed for that genome.  A strain id "{otu}.{i}" is the pair <<otu, i>>.*)
(* The floating-point products of map_otus_to_genomes are kept exact: a    *)
(* strain's abundance for a sample is num/den with num = weight*abundance  *)
(* and den = the sum of the weights.  An OTU is named by its position in   *)
(* the iteration order of the profile; the profiles range over every       *)
(* assignment of entries to positions.                                     *)
(*                                                                         *)
(* The operations are composed in the order of generate_input (lines       *)
(* 302-308), each called with all its arguments.  write_config is studied  *)
(* on its own, from any assignment map it can be handed.                   *)
(***************************************************************************)
EXTENDS Integers, Sequences, FiniteSets, TLC

VARIABLES
    pc,              \* position in the run
    profile,         \* otu -> [lin, abundances]          (read_taxonomic_profile's result)
    genomes_map,     \* genome id -> list of locations    (read_genomes_list's result)
    replace,         \* the replace argument of map_otus_to_genomes
    max_strains,     \* the max_strains argument of map_otus_to_genomes
    per_rank_map,    \* rank -> (tax id -> list of <<location, genome id>>)
    otu_genome_map,  \* strain id -> [tax_id, genome_id, path, abundances, den]
    warnings,        \* the warnings list of map_otus_to_genomes
    processed,       \* OTUs whose iteration of the loop at line 130 is over
    walk,            \* otu -> the locals of its iteration (lineage, available_genomes, ...)
    records,         \* write_config: assignment records not yet iterated
    counter,         \* write_config: the retry counter of the current record
    current,         \* write_config: the strain id being written, or NoStrain
    genome_to_id,    \* write_config: strain ids with a line in genome_to_id.tsv
    errors           \* write_config: number of _log.error calls

vars == <<pc, profile, genomes_map, replace, max_strains, per_rank_map,
          otu_genome_map, warnings, processed, walk, records, counter,
          current, genome_to_id, errors>>

mapVars == <<profile, genomes_map, replace, max_strains, per_rank_map,
             warnings, processed, walk>>
writeVars == <<records, counter, current, genome_to_id, errors>>

----------------------------------------------------------------------------
(* Bounds of the model *)

NumOtus == 2          \* OTUs of the profile: 1..NumOtus
MaxWeight == 2        \* a log-normal draw is one of 1..MaxWeight
MaxGeometric == 4     \* a geometric draw is one of 1..MaxGeometric

----------------------------------------------------------------------------
(* Generic helpers *)

Range(s) == {s[i] : i \in DOMAIN s}

Reverse(s) == [i \in 1..Len(s) |-> s[Len(s) + 1 - i]]

Max(a, b) == IF a >= b THEN a ELSE b

Min(a, b) == IF a <= b THEN a ELSE b

EmptyMap == [x \in {} |-> 0]

RECURSIVE SumSeq(_)
SumSeq(s) == IF Len(s) = 0 THEN 0 ELSE s[1] + SumSeq(Tail(s))

\* list.index(x): the 0-based position of the first occurrence
index(s, x) == (CHOOSE i \in 1..Len(s) : s[i] = x /\ \A j \in 1..(i-1) : s[j] # x) - 1

\* list.remove(x): drops the first occurrence of x
remove(s, x) ==
    LET i == index(s, x) + 1
    IN  [j \in 1..(Len(s) - 1) |-> IF j < i THEN s[j] ELSE s[j + 1]]

\* all orders in which a finite set can be iterated
Orders(S) == {s \in [1..Cardinality(S) -> S] : Range(s) = S}

----------------------------------------------------------------------------
(* Program constants *)

RANKS == <<"species", "genus", "family", "order", "class", "phylum", "superkingdom">>

MAX_RANK == "family"

MaxTries == 10

----------------------------------------------------------------------------
(* The taxonomy database behind the ncbi object: a fixture *)

ncbi_rank ==
    (1 :> "no rank") @@ (2 :> "superkingdom") @@ (20 :> "order") @@
    (30 :> "family") @@ (31 :> "family") @@ (40 :> "genus") @@ (41 :> "genus") @@
    (50 :> "species") @@ (51 :> "species") @@ (52 :> "species") @@
    (53 :> "species") @@ (54 :> "species")

ncbi_parent ==
    (2 :> 1) @@ (20 :> 2) @@ (30 :> 20) @@ (31 :> 20) @@ (40 :> 30) @@ (41 :> 31) @@
    (50 :> 40) @@ (51 :> 40) @@ (52 :> 41) @@ (53 :> 41) @@ (54 :> 40)

ncbi_names ==
    (<<"root">> :> 1) @@ (<<"Bacteria">> :> 2) @@
    (<<"Enterobacterales">> :> 20) @@ (<<"Enterobacteriaceae">> :> 30) @@
    (<<"Yersiniaceae">> :> 31) @@
    (<<"Escherichia">> :> 40) @@ (<<"Yersinia">> :> 41) @@
    (<<"Escherichia", "coli">> :> 50) @@ (<<"Escherichia", "albertii">> :> 51) @@
    (<<"Yersinia", "pestis">> :> 52) @@ (<<"Yersinia", "ruckeri">> :> 53) @@
    (<<"Escherichia", "fergusonii">> :> 54)

\* ncbi.get_lineage: the ancestors of a tax id, root first, the id last
RECURSIVE get_lineage(_)
get_lineage(t) ==
    IF t \notin DOMAIN ncbi_parent THEN <<t>>
    ELSE Append(get_lineage(ncbi_parent[t]), t)

\* ncbi.get_rank
get_rank(ids) == [t \in ids |-> ncbi_rank[t]]

\* ncbi.get_name_translator: only the queried names that are known are keys
get_name_translator(names) ==
    [n \in {m \in names : m \in DOMAIN ncbi_names} |-> <<ncbi_names[n]>>]

----------------------------------------------------------------------------
(* get_genomes_per_rank *)

\* lines 86-89: one empty bucket map per rank up to max_rank
EmptyIndex(ranks, max_rank) ==
    [r \in {ranks[i] : i \in {j \in 1..Len(ranks) :
                                  ~(index(ranks, ranks[j]) > index(ranks, max_rank))}}
        |-> EmptyMap]

\* IndexGenome indexing the last location of the genome instead of the first
RECURSIVE IndexGenome_last_location(_,_,_,_,_)
IndexGenome_last_location(prm, gmap, genome, lineage, i) ==
    IF i > Len(lineage) THEN prm
    ELSE LET tax_id == lineage[i]
             rank == get_rank(Range(lineage))[tax_id]
             entry == <<gmap[genome][Len(gmap[genome])], genome>>
             next ==
                 IF rank \in DOMAIN prm
                 THEN LET rank_map == prm[rank]
                          bucket == IF tax_id \in DOMAIN rank_map
                                    THEN Append(rank_map[tax_id], entry)
                                    ELSE <<entry>>
                      IN  [prm EXCEPT ![rank] =
                               [t \in DOMAIN rank_map \cup {tax_id} |->
                                   IF t = tax_id THEN bucket ELSE rank_map[t]]]
                 ELSE prm
         IN  IndexGenome_last_location(next, gmap, genome, lineage, i + 1)

\* lines 93-99 for one genome: walk its lineage from position i on
RECURSIVE IndexGenome(_,_,_,_,_)
IndexGenome(prm, gmap, genome, lineage, i) ==
    IF i > Len(lineage) THEN prm
    ELSE LET tax_id == lineage[i]
             rank == get_rank(Range(lineage))[tax_id]
             entry == <<gmap[genome][1], genome>>
             next ==
                 IF rank \in DOMAIN prm
                 THEN LET rank_map == prm[rank]
                          bucket == IF tax_id \in DOMAIN rank_map
                                    THEN Append(rank_map[tax_id], entry)
                                    ELSE <<entry>>
                      IN  [prm EXCEPT ![rank] =
                               [t \in DOMAIN rank_map \cup {tax_id} |->
                                   IF t = tax_id THEN bucket ELSE rank_map[t]]]
                 ELSE prm
         IN  IndexGenome(next, gmap, genome, lineage, i + 1)

\* lines 90-99: the genomes in the order the dictionary yields them
RECURSIVE IndexGenomes(_,_,_,_)
IndexGenomes(prm, gmap, order, k) ==
    IF k > Len(order) THEN prm
    ELSE IndexGenomes(IndexGenome(prm, gmap, order[k], get_lineage(order[k]), 1),
                      gmap, order, k + 1)

get_genomes_per_rank(gmap, order, ranks, max_rank) ==
    IndexGenomes(EmptyIndex(ranks, max_rank), gmap, order, 1)

----------------------------------------------------------------------------
(* transform_lineage *)

\* lines 106-121: new_lineage after the first n members of the lineage
RECURSIVE new_lineage(_,_,_)
new_lineage(lineage, ranks, n) ==
    IF n = 0 THEN <<>>
    ELSE LET prev == new_lineage(lineage, ranks, n - 1)
             name == lineage[n].name
             mapping == get_name_translator({name})
         IN  IF Len(name) = 0 THEN prev
             ELSE IF name \in DOMAIN mapping
                  THEN LET taxid == mapping[name][1]
                       IN  IF get_rank({taxid})[taxid] \in Range(ranks)
                           THEN Append(prev, taxid) ELSE prev
                  ELSE LET first == <<name[1]>>
                       IN  IF first \in DOMAIN mapping
                           THEN LET taxid == mapping[first][1]
                                IN  IF get_rank({taxid})[taxid] \in Range(ranks)
                                    THEN Append(prev, taxid) ELSE prev
                           ELSE prev

\* transform_lineage without the final inversion
transform_lineage_not_inverted(lineage, ranks, max_rank) ==
    new_lineage(lineage, ranks, Len(lineage))

transform_lineage(lineage, ranks, max_rank) ==
    Reverse(new_lineage(lineage, ranks, Len(lineage)))

----------------------------------------------------------------------------
(* map_otus_to_genomes *)

Warning(kind, otu, tax_id) == [kind |-> kind, otu |-> otu, tax_id |-> tax_id]

\* strains_to_draw without the reduction modulo max_strains
strains_to_draw_no_modulo(geometric, ms) == Max(geometric, 1)

\* line 147: max(geometric draw % max_strains, 1)
strains_to_draw(geometric, ms) == Max(geometric % ms, 1)

\* walk_lineage leaving the loop at the first id without an index entry
RECURSIVE walk_lineage_break(_,_,_,_,_,_)
walk_lineage_break(otu, lineage, i, prm, ranks, max_rank) ==
    IF i > Len(lineage) THEN [warnings |-> <<>>, hit |-> 0]
    ELSE LET tax_id == lineage[i]
             rank == get_rank(Range(lineage))[tax_id]
         IN  IF index(ranks, rank) > index(ranks, max_rank)
             THEN [warnings |-> <<Warning("rank_too_high", otu, tax_id),
                                  Warning("full_lineage", otu, tax_id)>>,
                   hit |-> 0]
             ELSE IF tax_id \notin DOMAIN prm[rank]
                  THEN [warnings |-> <<Warning("no_genomes", otu, tax_id)>>, hit |-> 0]
                  ELSE [warnings |-> <<>>, hit |-> tax_id]

\* lines 136-146: the walk over the lineage from position i on; hit is the tax
\* id whose bucket is used, 0 when the walk ends without one
RECURSIVE walk_lineage(_,_,_,_,_,_)
walk_lineage(otu, lineage, i, prm, ranks, max_rank) ==
    IF i > Len(lineage) THEN [warnings |-> <<>>, hit |-> 0]
    ELSE LET tax_id == lineage[i]
             rank == get_rank(Range(lineage))[tax_id]
         IN  IF index(ranks, rank) > index(ranks, max_rank)
             THEN [warnings |-> <<Warning("rank_too_high", otu, tax_id),
                                  Warning("full_lineage", otu, tax_id)>>,
                   hit |-> 0]
             ELSE IF tax_id \notin DOMAIN prm[rank]
                  THEN LET rest == walk_lineage(otu, lineage, i + 1, prm, ranks, max_rank)
                       IN  [warnings |-> <<Warning("no_genomes", otu, tax_id)>> \o rest.warnings,
                            hit |-> rest.hit]
                  ELSE [warnings |-> <<>>, hit |-> tax_id]

\* lines 148-152: the sets of genomes the draw can return
used_genomes_choices(available_genomes, n) ==
    IF Len(available_genomes) >= n
    THEN {{available_genomes[i] : i \in used_indices} :
             used_indices \in {S \in SUBSET (1..Len(available_genomes)) :
                                   Cardinality(S) = n}}
    ELSE {Range(available_genomes)}

\* remove_pair touching the species buckets only
remove_pair_species_only(prm, pair) ==
    [r \in DOMAIN prm |->
        [t \in DOMAIN prm[r] |->
            IF r = "species" /\ pair \in Range(prm[r][t])
            THEN remove(prm[r][t], pair) ELSE prm[r][t]]]

\* lines 165-168: the pair leaves every bucket that holds it
remove_pair(prm, pair) ==
    [r \in DOMAIN prm |->
        [t \in DOMAIN prm[r] |->
            IF pair \in Range(prm[r][t]) THEN remove(prm[r][t], pair) ELSE prm[r][t]]]

\* lines 164-168 over the genomes of one OTU, in iteration order
RECURSIVE remove_used(_,_,_,_)
remove_used(prm, order, i, rep) ==
    IF rep \/ i > Len(order) THEN prm
    ELSE remove_used(remove_pair(prm, order[i]), order, i + 1, rep)

\* strain_records with the weight index never advanced
strain_records_first_weight(otu, tax_id, order, log_normal_vals, abundances) ==
    LET sum_log_normal == SumSeq(log_normal_vals)
    IN  [k \in {<<otu, i>> : i \in 0..(Len(order) - 1)} |->
            [tax_id |-> tax_id,
             genome_id |-> order[k[2] + 1][2],
             path |-> order[k[2] + 1][1],
             abundances |-> [s \in DOMAIN abundances |->
                                 log_normal_vals[1] * abundances[s]],
             den |-> sum_log_normal]]

\* lines 153-163: the records of one OTU; order[i+1] is the pair of strain i
strain_records(otu, tax_id, order, log_normal_vals, abundances) ==
    LET sum_log_normal == SumSeq(log_normal_vals)
    IN  [k \in {<<otu, i>> : i \in 0..(Len(order) - 1)} |->
            [tax_id |-> tax_id,
             genome_id |-> order[k[2] + 1][2],
             path |-> order[k[2] + 1][1],
             abundances |-> [s \in DOMAIN abundances |->
                                 log_normal_vals[k[2] + 1] * abundances[s]],
             den |-> sum_log_normal]]

----------------------------------------------------------------------------
(* Inputs *)

Tok(p, n) == [prefix |-> p, name |-> n]

\* the entries a profile is made of: a lineage with its abundance per sample
ProfileEntries ==
    { [lin |-> <<Tok("k", <<"Bacteria">>), Tok("o", <<"Enterobacterales">>),
                 Tok("f", <<"Enterobacteriaceae">>), Tok("g", <<"Escherichia">>),
                 Tok("s", <<"Escherichia", "coli">>)>>,
       abundances |-> <<5, 1>>],
      [lin |-> <<Tok("n", <<"root">>), Tok("g", <<"Escherichia">>),
                 Tok("s", <<"Escherichia", "fergusonii">>), Tok("t", <<>>)>>,
       abundances |-> <<2, 3>>],
      [lin |-> <<Tok("k", <<"Bacteria">>), Tok("o", <<"Enterobacterales">>),
                 Tok("s", <<"Yersinia", "ruckeri">>)>>,
       abundances |-> <<1, 4>>],
      [lin |-> <<Tok("g", <<"Escherichia", "sp">>)>>,
       abundances |-> <<3, 3>>] }

Profiles == [1..NumOtus -> ProfileEntries]

GenomeCatalogs ==
    { (50 :> <<<<50, 1>>, <<50, 2>>>>) @@ (51 :> <<<<51, 1>>>>) @@ (52 :> <<<<52, 1>>>>) }

\* the values of max_strains: the least the geometric draw accepts, and the
\* default of line 293
MaxStrainsChoices == {2, 3}

NoStrain == <<0, 0>>

----------------------------------------------------------------------------
(* The run: get_genomes_per_rank, map_otus_to_genomes, fill_up *)

Init ==
    /\ pc = "index"
    /\ profile \in Profiles
    /\ genomes_map \in GenomeCatalogs
    /\ replace \in BOOLEAN
    /\ max_strains \in MaxStrainsChoices
    /\ per_rank_map = EmptyMap
    /\ otu_genome_map = EmptyMap
    /\ warnings = <<>>
    /\ processed = {}
    /\ walk = EmptyMap
    /\ records = {}
    /\ counter = 0
    /\ current = NoStrain
    /\ genome_to_id = {}
    /\ errors = 0

\* line 304
BuildIndex ==
    /\ pc = "index"
    /\ \E order \in Orders(DOMAIN genomes_map) :
           per_rank_map' = get_genomes_per_rank(genomes_map, order, RANKS, MAX_RANK)
    /\ pc' = "map"
    /\ UNCHANGED <<profile, genomes_map, replace, max_strains, otu_genome_map,
                   warnings, processed, walk>>
    /\ UNCHANGED writeVars

\* lines 130-175: one iteration of the loop over the profile and, after the
\* last one, the logging of the warnings and the return.  The OTUs are named
\* by their position in the iteration order of the profile.
MapOtu(otu) ==
    /\ pc = "map"
    /\ otu \in DOMAIN profile
    /\ processed = 1..(otu - 1)
    /\ LET lin == profile[otu].lin
           abundances == profile[otu].abundances
           lineage == transform_lineage(lin, RANKS, MAX_RANK)
           unmatched == IF Len(lineage) = 0
                        THEN <<Warning("no_ncbi_id", otu, 0)>> ELSE <<>>
           w == walk_lineage(otu, lineage, 1, per_rank_map, RANKS, MAX_RANK)
       IN  /\ warnings' = warnings \o unmatched \o w.warnings
           /\ IF w.hit = 0
              THEN /\ walk' = walk @@ (otu :> [lineage |-> lineage, hit |-> 0,
                                               available_genomes |-> <<>>,
                                               strains_to_draw |-> 0])
                   /\ UNCHANGED <<otu_genome_map, per_rank_map>>
              ELSE LET available_genomes ==
                           per_rank_map[get_rank(Range(lineage))[w.hit]][w.hit]
                   IN  \E geometric \in 1..MaxGeometric :
                       \E used_genomes \in used_genomes_choices(available_genomes,
                                               strains_to_draw(geometric, max_strains)) :
                       \E log_normal_vals \in [1..Cardinality(used_genomes) -> 1..MaxWeight] :
                       \E order \in Orders(used_genomes) :
                           /\ otu_genome_map' =
                                  strain_records(otu, w.hit, order, log_normal_vals, abundances)
                                  @@ otu_genome_map
                           /\ per_rank_map' = remove_used(per_rank_map, order, 1, replace)
                           /\ walk' = walk @@ (otu :>
                                  [lineage |-> lineage, hit |-> w.hit,
                                   available_genomes |-> available_genomes,
                                   strains_to_draw |->
                                       strains_to_draw(geometric, max_strains)])
    /\ processed' = processed \cup {otu}
    /\ pc' = IF processed' = DOMAIN profile THEN "mapped" ELSE "map"
    /\ UNCHANGED <<profile, genomes_map, replace, max_strains>>
    /\ UNCHANGED writeVars

\* lines 265-267: line 267 reads new_rank, a name bound neither in fill_up nor
\* in the module, so the call raises NameError before anything is assigned
FillUp ==
    /\ pc = "mapped"
    /\ pc' = "fill_up_NameError"
    /\ UNCHANGED <<otu_genome_map>>
    /\ UNCHANGED mapVars
    /\ UNCHANGED writeVars

Next ==
    \/ BuildIndex
    \/ \E otu \in 1..NumOtus : MapOtu(otu)
    \/ FillUp

Spec == Init /\ [][Next]_vars

----------------------------------------------------------------------------
(* write_config *)

\* the assignment records write_config can be handed
WriteRecords ==
    {[tax_id |-> 50, genome_id |-> g, path |-> <<g, 1>>,
      abundances |-> <<1, 1>>, den |-> 1] : g \in {50, 51}}

StrainIdSets ==
    {S \in SUBSET ((1..NumOtus) \X (0..1)) :
        \A k \in S : k[2] > 0 => <<k[1], k[2] - 1>> \in S}

WriteInputs == UNION {[S -> WriteRecords] : S \in StrainIdSets}

InitWrite ==
    /\ pc = "write"
    /\ otu_genome_map \in WriteInputs
    /\ records = DOMAIN otu_genome_map
    /\ counter = 0
    /\ current = NoStrain
    /\ genome_to_id = {}
    /\ errors = 0
    /\ profile = EmptyMap
    /\ genomes_map = EmptyMap
    /\ replace = TRUE
    /\ max_strains = 3
    /\ per_rank_map = EmptyMap
    /\ warnings = <<>>
    /\ processed = {}
    /\ walk = EmptyMap

\* lines 224-226: the next record of the loop, in the order the dictionary yields
NextRecord(otu) ==
    /\ pc = "write"
    /\ current = NoStrain
    /\ otu \in records
    /\ current' = otu
    /\ counter' = 0
    /\ UNCHANGED <<pc, otu_genome_map, records, genome_to_id, errors>>
    /\ UNCHANGED mapVars

\* lines 228-235 and 239-250: the download or copy succeeds, the loop is left,
\* and the record's lines are appended to the tables
RetrieveOk ==
    /\ pc = "write"
    /\ current # NoStrain
    /\ counter < MaxTries
    /\ genome_to_id' = genome_to_id \cup {current}
    /\ records' = records \ {current}
    /\ current' = NoStrain
    /\ UNCHANGED <<pc, otu_genome_map, counter, errors>>
    /\ UNCHANGED mapVars

\* lines 228-238: the download or copy raises
RetrieveFail ==
    /\ pc = "write"
    /\ current # NoStrain
    /\ counter < MaxTries
    /\ counter' = counter + 1
    /\ UNCHANGED <<pc, otu_genome_map, records, current, genome_to_id, errors>>
    /\ UNCHANGED mapVars

\* lines 239-241: line 240 logs the first error; line 241 reads genome, a name
\* bound neither in write_config nor in the module, and raises NameError
RetriesExhausted ==
    /\ pc = "write"
    /\ current # NoStrain
    /\ counter = MaxTries
    /\ errors' = errors + 1
    /\ pc' = "write_NameError"
    /\ UNCHANGED <<otu_genome_map, records, counter, current, genome_to_id>>
    /\ UNCHANGED mapVars

\* lines 251-263: the loop is over, the configuration is written
WriteReturn ==
    /\ pc = "write"
    /\ current = NoStrain
    /\ records = {}
    /\ pc' = "written"
    /\ UNCHANGED <<otu_genome_map, records, counter, current, genome_to_id, errors>>
    /\ UNCHANGED mapVars

NextWrite ==
    \/ \E otu \in (1..NumOtus) \X (0..1) : NextRecord(otu)
    \/ RetrieveOk
    \/ RetrieveFail
    \/ RetriesExhausted
    \/ WriteReturn

SpecWrite == InitWrite /\ [][NextWrite]_vars

----------------------------------------------------------------------------
(* Properties *)

RecordsOf(otu) == {k \in DOMAIN otu_genome_map : k[1] = otu}

Pair(k) == <<otu_genome_map[k].path, otu_genome_map[k].genome_id>>

\* the pairs left in any bucket of the rank index
Pool ==
    UNION {UNION {Range(per_rank_map[r][t]) : t \in DOMAIN per_rank_map[r]} :
              r \in DOMAIN per_rank_map}

RECURSIVE SumAbundance(_,_)
SumAbundance(keys, s) ==
    IF keys = {} THEN 0
    ELSE LET k == CHOOSE x \in keys : TRUE
         IN  otu_genome_map[k].abundances[s] + SumAbundance(keys \ {k}, s)

TargetRanks == {RANKS[i] : i \in 1..(index(RANKS, MAX_RANK) + 1)}

TooHigh(t) == index(RANKS, ncbi_rank[t]) > index(RANKS, MAX_RANK)

HasEntry(t) ==
    /\ ncbi_rank[t] \in DOMAIN per_rank_map
    /\ t \in DOMAIN per_rank_map[ncbi_rank[t]]

\* the first position of the lineage where the walk stops, Len + 1 if none
FirstStop(lineage) ==
    LET stops == {i \in 1..Len(lineage) : TooHigh(lineage[i]) \/ HasEntry(lineage[i])}
    IN  IF stops = {} THEN Len(lineage) + 1
        ELSE CHOOSE i \in stops : \A j \in stops : i <= j

Resolves(name) ==
    /\ Len(name) > 0
    /\ name \in DOMAIN ncbi_names
    /\ ncbi_rank[ncbi_names[name]] \in Range(RANKS)

Kept(lin) == {n \in 1..Len(lin) : Resolves(lin[n].name)}

\* the i-th largest element of a set of numbers
NthLargest(S, i) == CHOOSE k \in S : Cardinality({m \in S : m > k}) = i - 1

Occurrences(s, x) == Cardinality({i \in 1..Len(s) : s[i] = x})

\* C1: with replace false, no (source location, genome id) pair is in the
\* records of two different OTUs, and no pair of a record is left in any bucket
\* of the rank index once the OTU's iteration is over.
C1_NoPairSharedWithoutReplacement ==
    ~replace =>
        /\ \A k1, k2 \in DOMAIN otu_genome_map :
               k1[1] # k2[1] => Pair(k1) # Pair(k2)
        /\ \A k \in DOMAIN otu_genome_map : Pair(k) \notin Pool

C1_Witness ==
    /\ ~replace
    /\ pc = "mapped"
    /\ \E o1, o2 \in processed :
           /\ walk[o1].hit = 50 /\ RecordsOf(o1) # {}
           /\ walk[o2].hit = 40 /\ RecordsOf(o2) # {}

\* C2: for every OTU with a record and every sample, the abundances of the
\* OTU's strains {otu}.0, {otu}.1, ... add up to the OTU's abundance: all the
\* strains share one denominator, the sum of the weights, and the numerators
\* add up to denominator * abundance.
C2_StrainAbundancesSumToOtu ==
    \A otu \in processed :
        RecordsOf(otu) # {} =>
            /\ RecordsOf(otu) = {<<otu, i>> : i \in 0..(Cardinality(RecordsOf(otu)) - 1)}
            /\ \A k \in RecordsOf(otu) :
                   /\ otu_genome_map[k].den = otu_genome_map[<<otu, 0>>].den
                   /\ otu_genome_map[k].den > 0
            /\ \A s \in DOMAIN profile[otu].abundances :
                   SumAbundance(RecordsOf(otu), s) =
                       otu_genome_map[<<otu, 0>>].den * profile[otu].abundances[s]

C2_Witness ==
    \E otu \in processed :
        /\ Cardinality(RecordsOf(otu)) = 2
        /\ otu_genome_map[<<otu, 0>>].abundances # otu_genome_map[<<otu, 1>>].abundances

\* C3: an OTU whose walk reaches a non-empty bucket gets exactly
\* min(available genomes, drawn count) records, the drawn count being
\* max(geometric draw mod max_strains, 1), which is in 1..max_strains-1; the
\* records are pairwise distinct genomes of the bucket, at least one and at
\* most as many as the bucket holds.
C3_StrainCount ==
    \A otu \in processed :
        (walk[otu].hit # 0 /\ Len(walk[otu].available_genomes) > 0) =>
            LET n == Cardinality(RecordsOf(otu))
                drawn == walk[otu].strains_to_draw
                available == walk[otu].available_genomes
            IN  /\ \E g \in 1..MaxGeometric : drawn = Max(g % max_strains, 1)
                /\ drawn \in 1..(max_strains - 1)
                /\ n = Min(Len(available), drawn)
                /\ n >= 1 /\ n <= Len(available)
                /\ \A k \in RecordsOf(otu) : Pair(k) \in Range(available)
                /\ \A k1, k2 \in RecordsOf(otu) : k1 # k2 => Pair(k1) # Pair(k2)

C3_Witness ==
    \E otu \in processed :
        /\ walk[otu].hit # 0
        /\ Len(walk[otu].available_genomes) = 1
        /\ walk[otu].strains_to_draw = 2
        /\ Cardinality(RecordsOf(otu)) = 1

\* C4: the walk is most-specific first and uses the first match only: every
\* record of an OTU carries the first lineage id with an index entry, provided
\* no earlier id is coarser than the maximum rank; an id coarser than the
\* maximum rank ends the walk with a "rank too high" warning and no record;
\* every id passed over for want of an index entry has its own warning.
C4_FirstMatchOnly ==
    \A otu \in processed :
        LET lineage == walk[otu].lineage
            first == FirstStop(lineage)
            skipped == SelectSeq(warnings,
                           LAMBDA w : w.otu = otu /\ w.kind = "no_genomes")
            too_high == SelectSeq(warnings,
                           LAMBDA w : w.otu = otu /\ w.kind = "rank_too_high")
        IN  /\ Len(skipped) = first - 1
            /\ \A i \in 1..(first - 1) : skipped[i].tax_id = lineage[i]
            /\ IF first <= Len(lineage) /\ ~TooHigh(lineage[first])
               THEN /\ walk[otu].hit = lineage[first]
                    /\ Len(too_high) = 0
                    /\ \A k \in RecordsOf(otu) : otu_genome_map[k].tax_id = lineage[first]
               ELSE /\ walk[otu].hit = 0
                    /\ RecordsOf(otu) = {}
                    /\ IF first <= Len(lineage)
                       THEN /\ Len(too_high) = 1
                            /\ too_high[1].tax_id = lineage[first]
                       ELSE Len(too_high) = 0

C4_Witness ==
    \E o1, o2 \in processed :
        /\ walk[o1].lineage = <<54, 40>>
        /\ \E k \in RecordsOf(o1) : otu_genome_map[k].tax_id = 40
        /\ \E i \in 1..Len(warnings) : warnings[i] = Warning("no_genomes", o1, 54)
        /\ walk[o2].lineage = <<53, 20, 2>>
        /\ \E i \in 1..Len(warnings) : warnings[i] = Warning("rank_too_high", o2, 20)

\* C5: a call of fill_up with a genome left in the rank index and an OTU
\* without assignment gives the unassigned OTU that is lowest by (mean
\* abundance, OTU id) one genome of the pool and the OTU's own abundances.
Unassigned == {otu \in DOMAIN profile : RecordsOf(otu) = {}}

MeanTimesSamples(otu) ==
    SumSeq(profile[otu].abundances)

LowestUnassigned ==
    CHOOSE u \in Unassigned : \A v \in Unassigned :
        \/ MeanTimesSamples(u) < MeanTimesSamples(v)
        \/ MeanTimesSamples(u) = MeanTimesSamples(v) /\ u <= v

C5_FillUpServesLowestFirst ==
    [][(pc = "mapped" /\ pc' # "mapped" /\ Pool # {} /\ Unassigned # {}) =>
          \E k \in DOMAIN otu_genome_map' \ DOMAIN otu_genome_map :
              /\ k[1] = LowestUnassigned
              /\ <<otu_genome_map'[k].path, otu_genome_map'[k].genome_id>> \in Pool
              /\ otu_genome_map'[k].abundances = profile[LowestUnassigned].abundances]_vars

\* C6: a record whose ten retrieval attempts all failed is logged and
\* skipped, and the writer goes on: it never stops before the configuration
\* is written.
C6_RetrievalFailureNotFatal ==
    errors > 0 => pc \in {"write", "written"}

\* C7: the normalized lineage is the ids of the kept tokens (non-empty name
\* that resolves to an id of a recognized rank) in exactly the reverse of the
\* input order, and nothing else.
C7_LineageReversed ==
    \A otu \in processed :
        LET lin == profile[otu].lin
            lineage == walk[otu].lineage
        IN  /\ Len(lineage) = Cardinality(Kept(lin))
            /\ \A i \in 1..Len(lineage) :
                   lineage[i] = ncbi_names[lin[NthLargest(Kept(lin), i)].name]

C7_Witness ==
    \E otu \in processed :
        /\ Len(profile[otu].lin) = 4
        /\ walk[otu].lineage = <<54, 40>>

\* C8: the rank index has a bucket map for exactly the ranks up to the maximum
\* rank; every genome has, under each ancestor of a target rank, exactly one
\* entry (first source location, genome id); nothing else is indexed.
C8_RankIndex ==
    (pc = "map" /\ processed = {}) =>
        /\ DOMAIN per_rank_map = TargetRanks
        /\ \A r \in DOMAIN per_rank_map : \A t \in DOMAIN per_rank_map[r] :
               /\ ncbi_rank[t] = r
               /\ \A e \in Range(per_rank_map[r][t]) :
                      /\ e[2] \in DOMAIN genomes_map
                      /\ e[1] = genomes_map[e[2]][1]
                      /\ t \in Range(get_lineage(e[2]))
        /\ \A g \in DOMAIN genomes_map : \A a \in Range(get_lineage(g)) :
               ncbi_rank[a] \in TargetRanks =>
                   /\ a \in DOMAIN per_rank_map[ncbi_rank[a]]
                   /\ Occurrences(per_rank_map[ncbi_rank[a]][a],
                                  <<genomes_map[g][1], g>>) = 1

C8_Witness ==
    /\ pc = "map" /\ processed = {}
    /\ Len(genomes_map[50]) = 2
    /\ Range(per_rank_map["genus"][40]) = {<<<<50, 1>>, 50>>, <<<<51, 1>>, 51>>}

\* C9: a token whose full name does not resolve and whose first word resolves
\* to an id of a recognized rank contributes that id to the normalized lineage.
C9_FirstWordRetry ==
    \A otu \in processed :
        \A n \in 1..Len(profile[otu].lin) :
            LET name == profile[otu].lin[n].name
            IN  (Len(name) > 0 /\ name \notin DOMAIN ncbi_names /\ Resolves(<<name[1]>>))
                    => ncbi_names[<<name[1]>>] \in Range(walk[otu].lineage)

\* C10: when map_otus_to_genomes returns, every OTU without a record has a
\* warning in the warning log.
C10_UnassignedOtuHasWarning ==
    pc = "mapped" =>
        \A otu \in DOMAIN profile :
            RecordsOf(otu) = {} => \E i \in 1..Len(warnings) : warnings[i].otu = otu

====
